---- MODULE Spec2Model ----
\* Model of praw.models.listing.generator.ListingGenerator: a lazy,
\* cursor-driven iterator over the pages of a listing endpoint.
EXTENDS Integers, Sequences, FiniteSets, TLC

\* ---------------------------------------------------------------- bounds
\* largest configured item limit explored (limit ranges over None, 0..MaxLimit)
MaxLimit == 2
\* largest number of children a server page carries
MaxPageLen == 2
\* number of calls of reddit.get() explored per generator
MaxFetches == 3
\* number of calls of reddit.get() explored with two interleaved consumers
MaxRaceFetches == 2

\* ------------------------------------------------------- value encodings
\* Python None in an integer-valued attribute (limit, _list_index)
NoneInt == 0 - 1
\* Python None in a string-valued attribute (Listing.after, params["after"])
NoneStr == "None"
\* Optional values of structured type are sequences of length <= 1:
\* <<>> is None, <<v>> is v.

\* params["limit"] when limit is None or 0
DefaultPageLimit == 1024

\* cursors a server page may carry: null, empty, or an opaque token
Afters == {NoneStr, "", "a1", "a2"}
\* params["after"] the caller may pass to the constructor (NoneStr: key absent)
InitAfters == {NoneStr, "a1"}
Limits == {NoneInt} \cup (0 .. MaxLimit)
\* the shapes reddit.get() returns: a Listing object, a two-element list
\* [submission, Listing] (duplicates), or a dict (flair list)
Kinds == {"Listing", "list", "dict"}

\* ---------------------------------------------------------- collaborators
\* the children of the k-th response with n entries; ids are tagged with k
\* so that items of different fetches are distinguishable
Children(k, n) == [i \in 1 .. n |-> k * 10 + i]
\* element 0 of the k-th duplicates response (the primary submission)
Primary(k) == 0 - k

\* a Listing object
Listing(children, after) == [children |-> children, after |-> after]

\* the decoded response of reddit.get(): a value tagged with its Python type.
\* A list is <<primary, Listing>>, a dict is a record with the flair page's
\* "users" and "next" entries, anything else is the Listing object itself.
MkRaw(kind, k, n, after) ==
    IF kind = "list"
    THEN [kind |-> "list", val |-> <<Primary(k), Listing(Children(k, n), after)>>]
    ELSE IF kind = "dict"
    THEN [kind |-> "dict", val |-> [users |-> Children(k, n), next |-> after]]
    ELSE [kind |-> "Listing", val |-> Listing(Children(k, n), after)]

\* reddit.get() raised instead of returning
Raised == [kind |-> "raise", val |-> <<>>]

\* FlairListing(reddit, dict): children are the "users" entries, after is
\* the "next" attribute
FlairListing(d) == Listing(d.users, d.next)

\* Python truthiness of a cursor: None and "" are falsy
Truthy(after) == after # NoneStr /\ after # ""

\* len(listing)
PageLen(page) == Len(page.children)

\* the callers that pull from one generator in the interleaved specification
Consumers == {"c1", "c2"}

\* ------------------------------------------------------------------ state
VARIABLES
    limit,        \* self.limit: NoneInt or an integer >= 0
    params,       \* self.params: [limit, after]; after = NoneStr when absent
    _listing,     \* self._listing: <<>> (None) or <<Listing>>
    _list_index,  \* self._list_index: NoneInt or an index
    _exhausted,   \* self._exhausted
    yielded,      \* self.yielded
    \* history of the calls made so far (not program state)
    result,       \* outcome of the last __next__: [exc, ret]
    fetches,      \* number of reddit.get() calls issued
    fetchLog,     \* per returned page: [sent, after], the cursor requested
                  \* and the cursor the page carried
    lastKind,     \* Python type of the last response returned ("" before)
    sumSizes,     \* sum of the lengths of the pages returned
    afterChanges, \* number of refills that assigned params["after"]
    emptySeen,    \* a returned page had no children
    eosSeen,      \* a __next__ call has raised StopIteration
    served,       \* the children of the pages returned, in fetch order
    out,          \* the items returned by __next__ so far, in order
    \* callers of __next__ (used by the interleaved specification only)
    pc,           \* per consumer: "idle" or the line its __next__ call is at
    serial        \* the consumers serialise their __next__ calls

progVars == <<limit, params, _listing, _list_index, _exhausted, yielded>>
histVars == <<result, fetches, fetchLog, lastKind, sumSizes, afterChanges, emptySeen, eosSeen,
              served, out>>
vars == <<limit, params, _listing, _list_index, _exhausted, yielded,
          result, fetches, fetchLog, lastKind, sumSizes, afterChanges, emptySeen, eosSeen,
          served, out, pc, serial>>

\* the instance as one value
Self ==
    [limit |-> limit, params |-> params, listing |-> _listing,
     list_index |-> _list_index, exhausted |-> _exhausted, yielded |-> yielded]

\* ListingGenerator.__init__(reddit, url, limit, params)
__init__(lim, after0) ==
    [limit |-> lim,
     params |-> [limit |-> IF lim = NoneInt \/ lim = 0 THEN DefaultPageLimit ELSE lim,
                 after |-> after0],
     listing |-> <<>>, list_index |-> NoneInt, exhausted |-> FALSE, yielded |-> 0]

\* variant: the primary object of a duplicates response is kept as an item
UnwrapKeepsPrimary(raw) ==
    IF raw.kind = "list"
    THEN Listing(<<raw.val[1]>> \o raw.val[2].children, raw.val[2].after)
    ELSE IF raw.kind = "dict" THEN FlairListing(raw.val)
    ELSE raw.val

\* variant: a response that is neither list nor dict is rejected as empty
UnwrapStrict(raw) ==
    IF raw.kind = "list" THEN raw.val[2]
    ELSE IF raw.kind = "dict" THEN FlairListing(raw.val)
    ELSE Listing(<<>>, NoneStr)

\* lines 74-77: unwrap the response into the Listing to iterate
Unwrap(raw) ==
    IF raw.kind = "list" THEN raw.val[2]
    ELSE IF raw.kind = "dict" THEN FlairListing(raw.val)
    ELSE raw.val

\* variant: an empty page that carries a cursor is not treated as empty
IsEmptyPageUnlessCursor(page) == Len(page.children) = 0 /\ ~Truthy(page.after)

\* line 80: "not self._listing"
IsEmptyPage(page) == PageLen(page) = 0

\* variant: the comparison with the requested cursor is dropped
CursorAdvancesNoCompare(page, ps) == Truthy(page.after)
\* variant: the truthiness test of the cursor is dropped
CursorAdvancesNoTruthy(page, ps) == page.after # ps.after

\* line 83: the page carries a cursor that differs from the one requested
CursorAdvances(page, ps) == Truthy(page.after) /\ page.after # ps.after

\* variant: the new cursor is not stored in params (line 84 missing)
_next_batchKeepsCursor(s, raw) ==
    IF s.exhausted
    THEN [s |-> s, exc |-> "StopIteration", fetched |-> FALSE]
    ELSE IF raw.kind = "raise"
    THEN [s |-> s, exc |-> "FetchError", fetched |-> TRUE]
    ELSE LET page == Unwrap(raw)
             s1 == [s EXCEPT !.listing = <<page>>, !.list_index = 0]
         IN  IF IsEmptyPage(page)
             THEN [s |-> s1, exc |-> "StopIteration", fetched |-> TRUE]
             ELSE IF CursorAdvances(page, s.params)
             THEN [s |-> s1, exc |-> "none", fetched |-> TRUE]
             ELSE [s |-> [s1 EXCEPT !.exhausted = TRUE],
                   exc |-> "none", fetched |-> TRUE]

\* variant: the _exhausted guard of lines 70-71 is missing
_next_batchNoGuard(s, raw) ==
    IF raw.kind = "raise"
    THEN [s |-> s, exc |-> "FetchError", fetched |-> TRUE]
    ELSE LET page == Unwrap(raw)
             s1 == [s EXCEPT !.listing = <<page>>, !.list_index = 0]
         IN  IF IsEmptyPage(page)
             THEN [s |-> s1, exc |-> "StopIteration", fetched |-> TRUE]
             ELSE IF CursorAdvances(page, s.params)
             THEN [s |-> [s1 EXCEPT !.params.after = page.after],
                   exc |-> "none", fetched |-> TRUE]
             ELSE [s |-> [s1 EXCEPT !.exhausted = TRUE],
                   exc |-> "none", fetched |-> TRUE]

\* variant: the cursor is examined before the emptiness test
_next_batchCursorFirst(s, raw) ==
    IF s.exhausted
    THEN [s |-> s, exc |-> "StopIteration", fetched |-> FALSE]
    ELSE IF raw.kind = "raise"
    THEN [s |-> s, exc |-> "FetchError", fetched |-> TRUE]
    ELSE LET page == Unwrap(raw)
             s1 == [s EXCEPT !.listing = <<page>>, !.list_index = 0]
             s2 == IF CursorAdvances(page, s.params)
                   THEN [s1 EXCEPT !.params.after = page.after]
                   ELSE [s1 EXCEPT !.exhausted = TRUE]
         IN  IF IsEmptyPage(page)
             THEN [s |-> s2, exc |-> "StopIteration", fetched |-> TRUE]
             ELSE [s |-> s2, exc |-> "none", fetched |-> TRUE]

\* variant: _list_index is reset before reddit.get() is called
_next_batchResetFirst(s, raw) ==
    IF s.exhausted
    THEN [s |-> s, exc |-> "StopIteration", fetched |-> FALSE]
    ELSE IF raw.kind = "raise"
    THEN [s |-> [s EXCEPT !.list_index = 0], exc |-> "FetchError", fetched |-> TRUE]
    ELSE LET page == Unwrap(raw)
             s1 == [s EXCEPT !.listing = <<page>>, !.list_index = 0]
         IN  IF IsEmptyPage(page)
             THEN [s |-> s1, exc |-> "StopIteration", fetched |-> TRUE]
             ELSE IF CursorAdvances(page, s.params)
             THEN [s |-> [s1 EXCEPT !.params.after = page.after],
                   exc |-> "none", fetched |-> TRUE]
             ELSE [s |-> [s1 EXCEPT !.exhausted = TRUE],
                   exc |-> "none", fetched |-> TRUE]

\* ListingGenerator._next_batch; raw is what reddit.get() does if called.
\* Result: the instance afterwards, the exception raised ("none" if it
\* returns) and whether reddit.get() was called.  When reddit.get() raises,
\* the assignment of line 73 does not happen.
_next_batch(s, raw) ==
    IF s.exhausted
    THEN [s |-> s, exc |-> "StopIteration", fetched |-> FALSE]
    ELSE IF raw.kind = "raise"
    THEN [s |-> s, exc |-> "FetchError", fetched |-> TRUE]
    ELSE LET page == Unwrap(raw)
             s1 == [s EXCEPT !.listing = <<page>>, !.list_index = 0]
         IN  IF IsEmptyPage(page)
             THEN [s |-> s1, exc |-> "StopIteration", fetched |-> TRUE]
             ELSE IF CursorAdvances(page, s.params)
             THEN [s |-> [s1 EXCEPT !.params.after = page.after],
                   exc |-> "none", fetched |-> TRUE]
             ELSE [s |-> [s1 EXCEPT !.exhausted = TRUE],
                   exc |-> "none", fetched |-> TRUE]

\* variant: the budget test is off by one
LimitReachedOffByOne(s) == s.limit # NoneInt /\ s.yielded > s.limit

\* line 59: the item budget is spent
LimitReached(s) == s.limit # NoneInt /\ s.yielded >= s.limit

\* variant: the refill is triggered one item early
NeedsBatchEager(s) ==
    \/ s.listing = <<>>
    \/ s.list_index + 1 >= Len(s.listing[1].children)

\* variant: the refill is triggered one pull late
NeedsBatchLate(s) ==
    \/ s.listing = <<>>
    \/ s.list_index > Len(s.listing[1].children)

\* line 62: there is no page, or the page is fully consumed
NeedsBatch(s) ==
    \/ s.listing = <<>>
    \/ s.list_index >= PageLen(s.listing[1])

\* variant: the item is read at the advanced index (line 67 without "- 1")
__next__ReadsAhead(s, raw) ==
    IF LimitReached(s)
    THEN [s |-> s, exc |-> "StopIteration", ret |-> <<>>, fetched |-> FALSE]
    ELSE LET b == IF NeedsBatch(s) THEN _next_batch(s, raw)
                  ELSE [s |-> s, exc |-> "none", fetched |-> FALSE]
         IN  IF b.exc # "none"
             THEN [s |-> b.s, exc |-> b.exc, ret |-> <<>>, fetched |-> b.fetched]
             ELSE LET s2 == [b.s EXCEPT !.list_index = @ + 1, !.yielded = @ + 1]
                      page == s2.listing[1]
                  IN  IF s2.list_index + 1 <= PageLen(page)
                      THEN [s |-> s2, exc |-> "none",
                            ret |-> <<page.children[s2.list_index + 1]>>,
                            fetched |-> b.fetched]
                      ELSE [s |-> s2, exc |-> "IndexError", ret |-> <<>>,
                            fetched |-> b.fetched]

\* ListingGenerator.__next__
__next__(s, raw) ==
    IF LimitReached(s)
    THEN [s |-> s, exc |-> "StopIteration", ret |-> <<>>, fetched |-> FALSE]
    ELSE LET b == IF NeedsBatch(s) THEN _next_batch(s, raw)
                  ELSE [s |-> s, exc |-> "none", fetched |-> FALSE]
         IN  IF b.exc # "none"
             THEN [s |-> b.s, exc |-> b.exc, ret |-> <<>>, fetched |-> b.fetched]
             ELSE LET s2 == [b.s EXCEPT !.list_index = @ + 1, !.yielded = @ + 1]
                      page == s2.listing[1]
                  IN  IF s2.list_index <= PageLen(page)
                      THEN [s |-> s2, exc |-> "none",
                            ret |-> <<page.children[s2.list_index]>>,
                            fetched |-> b.fetched]
                      ELSE [s |-> s2, exc |-> "IndexError", ret |-> <<>>,
                            fetched |-> b.fetched]

\* whether a __next__ call in the current state calls reddit.get()
WouldFetch == __next__(Self, Raised).fetched

\* one __next__ call in which reddit.get(), if called, behaves as raw; n and
\* after are the size and the cursor of the page the server put in raw
Call(raw, n, after) ==
    LET r == __next__(Self, raw)
        got == r.fetched /\ raw.kind # "raise"
    IN  /\ limit' = r.s.limit
        /\ params' = r.s.params
        /\ _listing' = r.s.listing
        /\ _list_index' = r.s.list_index
        /\ _exhausted' = r.s.exhausted
        /\ yielded' = r.s.yielded
        /\ result' = [exc |-> r.exc, ret |-> r.ret]
        /\ fetches' = IF r.fetched THEN fetches + 1 ELSE fetches
        /\ fetchLog' = IF got
                       THEN Append(fetchLog, [sent |-> params.after,
                                              after |-> after])
                       ELSE fetchLog
        /\ lastKind' = IF got THEN raw.kind ELSE lastKind
        /\ sumSizes' = IF got THEN sumSizes + n ELSE sumSizes
        /\ afterChanges' = IF r.s.params.after # params.after
                           THEN afterChanges + 1 ELSE afterChanges
        /\ emptySeen' = (emptySeen \/ (got /\ n = 0))
        /\ eosSeen' = (eosSeen \/ r.exc = "StopIteration")
        /\ served' = IF got THEN served \o Children(Len(fetchLog) + 1, n) ELSE served
        /\ out' = out \o r.ret
        /\ UNCHANGED <<pc, serial>>

\* a pull served without touching the network (buffered item, limit
\* reached, or exhausted)
NextNoFetch ==
    /\ ~WouldFetch
    /\ Call(Raised, 0, NoneStr)

\* a pull whose refill gets a response from the server
NextFetch ==
    /\ WouldFetch
    /\ fetches < MaxFetches
    /\ \E kind \in Kinds, n \in 0 .. MaxPageLen, after \in Afters :
           Call(MkRaw(kind, Len(fetchLog) + 1, n, after), n, after)

\* a pull whose refill fails in reddit.get()
NextFetchRaises ==
    /\ WouldFetch
    /\ fetches < MaxFetches
    /\ Call(Raised, 0, NoneStr)

InitState ==
    /\ \E lim \in Limits, after0 \in InitAfters :
           LET s == __init__(lim, after0)
           IN  /\ limit = s.limit
               /\ params = s.params
               /\ _listing = s.listing
               /\ _list_index = s.list_index
               /\ _exhausted = s.exhausted
               /\ yielded = s.yielded
    /\ result = [exc |-> "none", ret |-> <<>>]
    /\ fetches = 0
    /\ fetchLog = <<>>
    /\ lastKind = ""
    /\ sumSizes = 0
    /\ afterChanges = 0
    /\ emptySeen = FALSE
    /\ eosSeen = FALSE
    /\ served = <<>>
    /\ out = <<>>
    /\ pc = [t \in Consumers |-> "idle"]

\* a generator pulled by one caller, one __next__ call at a time
Init == InitState /\ serial = TRUE

Next == NextNoFetch \/ NextFetch \/ NextFetchRaises

Spec == Init /\ [][Next]_vars

\* a generator constructed with limit=None
InitUnbounded == Init /\ limit = NoneInt

\* the caller keeps pulling: a __next__ call that needs no reddit.get()
\* always completes
SpecPulling == InitUnbounded /\ [][Next]_vars /\ WF_vars(NextNoFetch)

\* ------------------------------------------- __next__ statement by statement
\* Two consumers call __next__ on one instance.  Each action is one statement
\* of lines 57-86; a consumer may be preempted between any two statements.
\* When serial holds the consumers take turns with whole calls.  The server
\* answers with Listing objects, the shape for which lines 74-77 assign
\* nothing, and reddit.get() does not raise.  Of the history only fetches,
\* result, eosSeen and out are kept here.

\* cursors the server hands out here: none, or a token
RaceAfters == {NoneStr, "a1"}

\* history that a returning reddit.get() changes
fetchVars == <<fetches, fetchLog, lastKind, sumSizes, emptySeen, served>>

\* consumer t goes on to line l
Jump(t, l) ==
    /\ pc' = [pc EXCEPT ![t] = l]
    /\ UNCHANGED <<result, eosSeen, out, serial>>

\* the call of consumer t ends with exception exc
Raise(t, exc) ==
    /\ pc' = [pc EXCEPT ![t] = "idle"]
    /\ result' = [exc |-> exc, ret |-> <<>>]
    /\ eosSeen' = (eosSeen \/ exc = "StopIteration")
    /\ UNCHANGED <<out, serial>>

\* consumer t calls __next__
Enter(t) ==
    /\ pc[t] = "idle"
    /\ serial => \A u \in Consumers : pc[u] = "idle"
    /\ Jump(t, "L59")
    /\ UNCHANGED <<progVars, fetchVars, afterChanges>>

\* lines 59-60
Line59(t) ==
    /\ pc[t] = "L59"
    /\ IF LimitReached(Self) THEN Raise(t, "StopIteration") ELSE Jump(t, "L62")
    /\ UNCHANGED <<progVars, fetchVars, afterChanges>>

\* line 62; None >= int is a TypeError
Line62(t) ==
    /\ pc[t] = "L62"
    /\ IF _listing # <<>> /\ _list_index = NoneInt
       THEN Raise(t, "TypeError")
       ELSE IF NeedsBatch(Self) THEN Jump(t, "L70") ELSE Jump(t, "L65")
    /\ UNCHANGED <<progVars, fetchVars, afterChanges>>

\* lines 70-71
Line70(t) ==
    /\ pc[t] = "L70"
    /\ IF _exhausted THEN Raise(t, "StopIteration") ELSE Jump(t, "L73")
    /\ UNCHANGED <<progVars, fetchVars, afterChanges>>

\* lines 73-77: reddit.get() returns a Listing, which is stored
Line73(t) ==
    /\ pc[t] = "L73"
    /\ fetches < MaxRaceFetches
    /\ \E n \in 0 .. MaxPageLen, after \in RaceAfters :
          _listing' = <<Unwrap(MkRaw("Listing", fetches + 1, n, after))>>
    /\ fetches' = fetches + 1
    /\ Jump(t, "L78")
    /\ UNCHANGED <<limit, params, _list_index, _exhausted, yielded, afterChanges,
                   fetchLog, lastKind, sumSizes, emptySeen, served>>

\* line 78
Line78(t) ==
    /\ pc[t] = "L78"
    /\ _list_index' = 0
    /\ Jump(t, "L80")
    /\ UNCHANGED <<limit, params, _listing, _exhausted, yielded,
                   fetchVars, afterChanges>>

\* lines 80-81
Line80(t) ==
    /\ pc[t] = "L80"
    /\ IF IsEmptyPage(_listing[1]) THEN Raise(t, "StopIteration") ELSE Jump(t, "L83")
    /\ UNCHANGED <<progVars, fetchVars, afterChanges>>

\* line 83
Line83(t) ==
    /\ pc[t] = "L83"
    /\ IF CursorAdvances(_listing[1], params) THEN Jump(t, "L84") ELSE Jump(t, "L86")
    /\ UNCHANGED <<progVars, fetchVars, afterChanges>>

\* line 84
Line84(t) ==
    /\ pc[t] = "L84"
    /\ params' = [params EXCEPT !.after = _listing[1].after]
    /\ Jump(t, "L65")
    /\ UNCHANGED <<limit, _listing, _list_index, _exhausted, yielded,
                   fetchVars, afterChanges>>

\* line 86
Line86(t) ==
    /\ pc[t] = "L86"
    /\ _exhausted' = TRUE
    /\ Jump(t, "L65")
    /\ UNCHANGED <<limit, params, _listing, _list_index, yielded,
                   fetchVars, afterChanges>>

\* line 65
Line65(t) ==
    /\ pc[t] = "L65"
    /\ _list_index' = _list_index + 1
    /\ Jump(t, "L66")
    /\ UNCHANGED <<limit, params, _listing, _exhausted, yielded,
                   fetchVars, afterChanges>>

\* line 66
Line66(t) ==
    /\ pc[t] = "L66"
    /\ yielded' = yielded + 1
    /\ Jump(t, "L67")
    /\ UNCHANGED <<limit, params, _listing, _list_index, _exhausted,
                   fetchVars, afterChanges>>

\* line 67: self._listing[self._list_index - 1], with Python's indexing (a
\* negative index counts from the end, an index outside raises IndexError)
Line67(t) ==
    /\ pc[t] = "L67"
    /\ LET i == _list_index - 1
           ch == _listing[1].children
           r == IF 0 <= i /\ i < Len(ch)
                THEN [exc |-> "none", ret |-> <<ch[i + 1]>>]
                ELSE IF i < 0 /\ 0 - Len(ch) <= i
                THEN [exc |-> "none", ret |-> <<ch[Len(ch) + i + 1]>>]
                ELSE [exc |-> "IndexError", ret |-> <<>>]
       IN  /\ result' = r
           /\ out' = out \o r.ret
    /\ pc' = [pc EXCEPT ![t] = "idle"]
    /\ UNCHANGED <<progVars, fetchVars, afterChanges, eosSeen, serial>>

\* a generator constructed without cursor
InitThreads ==
    /\ InitState
    /\ params.after = NoneStr
    /\ serial \in BOOLEAN

NextThreads ==
    \E t \in Consumers :
        \/ Enter(t)
        \/ Line59(t)
        \/ Line62(t)
        \/ Line70(t)
        \/ Line73(t)
        \/ Line78(t)
        \/ Line80(t)
        \/ Line83(t)
        \/ Line84(t)
        \/ Line86(t)
        \/ Line65(t)
        \/ Line66(t)
        \/ Line67(t)

SpecThreads == InitThreads /\ [][NextThreads]_vars

TypeOK ==
    /\ limit \in Limits
    /\ yielded \in Nat
    /\ _exhausted \in BOOLEAN
    /\ Len(_listing) <= 1
    /\ fetches \in 0 .. MaxFetches

\* ----------------------------------------------------------- properties
\* the current page is absent or fully consumed
PageConsumed == _listing = <<>> \/ _list_index >= Len(_listing[1].children)
\* the budget is spent
BudgetSpent == limit # NoneInt /\ yielded >= limit
\* this step's reddit.get() returned a page
GotPage == Len(fetchLog') = Len(fetchLog) + 1
\* this step's reddit.get() raised
GetRaised == fetches' = fetches + 1 /\ fetchLog' = fetchLog
\* the last page returned: cursor requested and cursor carried
LastFetch == fetchLog[Len(fetchLog)]

\* C1: with a limit N configured, 0 <= yielded <= N in every state, and a
\* __next__ call made while yielded >= N raises StopIteration without
\* calling reddit.get() and without yielding.
C1_LimitEnforced ==
    /\ (limit # NoneInt => (0 <= yielded /\ yielded <= limit))
    /\ [][limit' # NoneInt => (0 <= yielded' /\ yielded' <= limit')]_vars
    /\ [][BudgetSpent =>
            /\ result'.exc = "StopIteration"
            /\ result'.ret = <<>>
            /\ fetches' = fetches
            /\ yielded' = yielded]_vars

\* the budget is spent while the page still holds items and the server has
\* more pages, and the pull raised StopIteration
C1_Witness ==
    /\ limit = 1
    /\ yielded = 1
    /\ result.exc = "StopIteration"
    /\ _listing # <<>>
    /\ _list_index < Len(_listing[1].children)
    /\ ~_exhausted

\* C2: with limit None, a pull that needs a page fetches as long as
\* _exhausted is false; a refill with a non-empty page sets _exhausted
\* exactly when the page's cursor is empty or equals the requested one and
\* still serves the page; once _exhausted and the page is consumed, pulls
\* raise StopIteration, and then yielded equals the sum of the page sizes.
C2_UnboundedExhaustion ==
    /\ [][(limit = NoneInt /\ GotPage /\ sumSizes' > sumSizes) =>
            /\ result'.exc = "none"
            /\ _exhausted' = (\/ ~Truthy(fetchLog'[Len(fetchLog')].after)
                              \/ fetchLog'[Len(fetchLog')].after
                                    = fetchLog'[Len(fetchLog')].sent)]_vars
    /\ [][(limit = NoneInt /\ _exhausted /\ PageConsumed) =>
            /\ result'.exc = "StopIteration"
            /\ fetches' = fetches
            /\ UNCHANGED progVars]_vars
    /\ [][(limit = NoneInt /\ ~_exhausted /\ PageConsumed) =>
            fetches' = fetches + 1]_vars
    /\ [][(limit' = NoneInt /\ _exhausted' /\ result'.exc = "StopIteration")
            => yielded' = sumSizes']_vars

\* an unbounded generator pulled dry over several pages
C2_Witness ==
    /\ limit = NoneInt
    /\ _exhausted
    /\ result.exc = "StopIteration"
    /\ Len(fetchLog) >= 2
    /\ yielded = sumSizes
    /\ yielded >= 3

\* C3: when reddit.get() raises, the exception leaves __next__ and
\* _listing, _list_index, _exhausted, yielded and params are unchanged.
C3_FailedFetchKeepsState ==
    [][GetRaised => (result'.exc = "FetchError" /\ UNCHANGED progVars)]_vars

\* a refill failed after a page had been consumed
C3_Witness ==
    /\ result.exc = "FetchError"
    /\ _listing # <<>>
    /\ _list_index = Len(_listing[1].children)
    /\ _list_index > 0

\* C4: after a refill has returned an empty page, no later __next__ call
\* calls reddit.get() again.
C4_EmptyPageNeverRetried ==
    [][emptySeen => fetches' = fetches]_vars

\* C5: once a __next__ call has raised StopIteration, every later call
\* raises StopIteration and returns no item.
C5_EndOfSequenceTerminal ==
    [][eosSeen => (result'.exc = "StopIteration" /\ result'.ret = <<>>)]_vars

\* C6: a refill whose page has no children makes that pull raise
\* StopIteration and yield nothing, whatever cursor the page carries.
C6_EmptyPageStops ==
    [][(GotPage /\ sumSizes' = sumSizes) =>
            /\ result'.exc = "StopIteration"
            /\ result'.ret = <<>>
            /\ yielded' = yielded]_vars

\* the pull just made fetched an empty page carrying a new cursor
C6_Witness ==
    /\ Len(fetchLog) >= 1
    /\ _listing # <<>>
    /\ Len(_listing[1].children) = 0
    /\ Truthy(LastFetch.after)
    /\ LastFetch.after # LastFetch.sent
    /\ result.exc = "StopIteration"

\* C7 (as stated): a response that is neither a list nor a dict makes the
\* refill fail with ProtocolViolation, and no item of it is ever yielded.
C7_OtherShapeIsViolation ==
    /\ [][(GotPage /\ lastKind' \notin {"list", "dict"}) =>
            result'.exc = "ProtocolViolation"]_vars
    /\ [][lastKind' \notin {"list", "dict", ""} => result'.ret = <<>>]_vars

\* C7 (amended): a response that is a Listing object (neither list nor
\* dict) becomes the current page unchanged; the pull raises no
\* ProtocolViolation and returns the page's first child, or raises
\* StopIteration when the page is empty.
C7_BareListingIsPage ==
    [][(GotPage /\ lastKind' = "Listing") =>
        LET k == Len(fetchLog')
            n == sumSizes' - sumSizes
        IN  /\ _listing' = <<Listing(Children(k, n), fetchLog'[k].after)>>
            /\ IF n = 0
               THEN result' = [exc |-> "StopIteration", ret |-> <<>>]
               ELSE result' = [exc |-> "none", ret |-> <<Children(k, n)[1]>>]]_vars

\* the second item of a bare Listing response has been returned
C7_Witness ==
    /\ lastKind = "Listing"
    /\ result.exc = "none"
    /\ _list_index = 2
    /\ result.ret = <<_listing[1].children[2]>>

\* C8: with limit None, every page non-empty and every reddit.get()
\* returning, once the generator has been pulled to StopIteration the number
\* of reddit.get() calls is one more than the number of refills that
\* changed params["after"].
C8_FetchCount ==
    (/\ limit = NoneInt
     /\ ~emptySeen
     /\ fetches = Len(fetchLog)
     /\ result.exc = "StopIteration")
    => fetches = afterChanges + 1

\* three fetches, two cursor changes, then StopIteration
C8_Witness ==
    /\ limit = NoneInt
    /\ ~emptySeen
    /\ fetches = Len(fetchLog)
    /\ result.exc = "StopIteration"
    /\ fetches = 3
    /\ afterChanges = 2

\* successive non-empty pages carried "a1", "a2", ... from a start without
\* cursor
PagesA1A2 ==
    /\ Len(fetchLog) >= 2
    /\ ~emptySeen
    /\ fetchLog[1] = [sent |-> NoneStr, after |-> "a1"]
    /\ fetchLog[2].after = "a2"

\* C9 (as stated): for pages carrying a1, a2, a2 the cursor requested
\* becomes a1, then a2, and the third page (repeating a2) is never fetched.
C9_ThirdPageNeverFetched ==
    PagesA1A2 =>
        /\ fetchLog[2].sent = "a1"
        /\ params.after = "a2"
        /\ ~(Len(fetchLog) >= 3 /\ fetchLog[3].after = "a2")

\* C9 (amended): for pages carrying a1, a2, a2 the cursor requested becomes
\* a1, then a2; the third page is fetched with cursor a2, it sets
\* _exhausted, and no fourth page is fetched.
C9_RepeatStopsAfterThirdPage ==
    (PagesA1A2 /\ Len(fetchLog) >= 3 /\ fetchLog[3].after = "a2") =>
        /\ fetchLog[2].sent = "a1"
        /\ fetchLog[3].sent = "a2"
        /\ params.after = "a2"
        /\ _exhausted
        /\ Len(fetchLog) = 3
        /\ ~WouldFetch

\* the third page has been fetched and consumed, and the pull after it
\* raised StopIteration
C9_Witness ==
    /\ PagesA1A2
    /\ Len(fetchLog) = 3
    /\ fetchLog[3].after = "a2"
    /\ _list_index = Len(_listing[1].children)
    /\ result.exc = "StopIteration"

\* C10: construction calls reddit.get() zero times; a __next__ call calls
\* it only when there is no page or the page is consumed, the budget is not
\* spent and _exhausted is false; and it calls it at most once.
C10_LazyFetch ==
    /\ (fetches = 0 /\ _listing = <<>>)
    /\ [][fetches' # fetches =>
            /\ PageConsumed
            /\ ~BudgetSpent
            /\ ~_exhausted
            /\ fetches' = fetches + 1]_vars
    /\ [][(~PageConsumed /\ ~BudgetSpent) =>
            (fetches' = fetches /\ result'.exc = "none")]_vars

\* the second fetch happened only when the third item was asked for
C10_Witness ==
    /\ fetches = 2
    /\ Len(fetchLog) = 2
    /\ yielded = MaxPageLen + 1
    /\ _list_index = 1
    /\ result.exc = "none"

\* the page-size hint __init__ must have put into params["limit"]
ExpectedPageLimit == IF limit = NoneInt \/ limit = 0 THEN DefaultPageLimit ELSE limit

\* C11 (as stated): every reddit.get() call gets params with a limit key,
\* and every call after the first one also gets an after key.
C11_AfterOnEveryLaterFetch ==
    [][fetches' = fetches + 1 =>
        /\ params.limit # NoneInt
        /\ (fetches >= 1 => params.after # NoneStr)]_vars

\* C11 (amended): every reddit.get() call gets params whose limit is the
\* configured limit, or 1024 when that is None or 0, and every call made
\* after a non-empty page was returned also gets a non-empty after.
C11_AfterOncePageServed ==
    [][fetches' = fetches + 1 =>
        /\ params.limit = ExpectedPageLimit
        /\ params.limit >= 1
        /\ (sumSizes > 0 => Truthy(params.after))]_vars

\* a second page was requested with the cursor of the first one
C11_Witness ==
    /\ Len(fetchLog) >= 2
    /\ fetchLog[1].sent = NoneStr
    /\ Truthy(fetchLog[2].sent)
    /\ fetchLog[2].sent = fetchLog[1].after
    /\ sumSizes > 0

\* C12: for a duplicates response [X, pageY] the page iterated is pageY:
\* its children are returned in order, its after is the cursor considered,
\* and X is never returned.
C12_DuplicatesUnwrapped ==
    /\ [][(GotPage /\ lastKind' = "list") =>
            LET k == Len(fetchLog')
                n == sumSizes' - sumSizes
            IN  /\ _listing' = <<Listing(Children(k, n), fetchLog'[k].after)>>
                /\ (n > 0 => _exhausted' =
                        (\/ ~Truthy(fetchLog'[k].after)
                         \/ fetchLog'[k].after = fetchLog'[k].sent))]_vars
    /\ [][(lastKind' = "list" /\ result'.exc = "none") =>
            /\ _list_index' \in 1 .. Len(_listing'[1].children)
            /\ result'.ret = <<Children(Len(fetchLog'),
                                        Len(_listing'[1].children))[_list_index']>>
            /\ result'.ret[1] > 0]_vars

\* both children of a duplicates page have been returned
C12_Witness ==
    /\ lastKind = "list"
    /\ result.exc = "none"
    /\ _list_index = 2
    /\ result.ret = <<Children(Len(fetchLog), 2)[2]>>

\* C13 (as stated): _listing is None or 0 <= _list_index < len(_listing).
C13_IndexStrictlyInside ==
    \/ _listing = <<>>
    \/ (0 <= _list_index /\ _list_index < Len(_listing[1].children))

\* C13 (amended): _listing is None or 0 <= _list_index <= len(_listing);
\* the index equals the length once the page is consumed (or empty).
C13_IndexWithinPage ==
    \/ _listing = <<>>
    \/ (0 <= _list_index /\ _list_index <= Len(_listing[1].children))

\* a page has been consumed to its end
C13_Witness ==
    /\ _listing # <<>>
    /\ Len(_listing[1].children) = MaxPageLen
    /\ _list_index = MaxPageLen
    /\ result.exc = "none"

\* C14: _exhausted never reverts, no reddit.get() is called once it is
\* set, and the page of the refill that set it is served: that pull returns
\* its first child and later pulls return the rest, up to the limit.
C14_ExhaustedIsFinal ==
    /\ [][_exhausted => (_exhausted' /\ fetches' = fetches)]_vars
    /\ [][(~_exhausted /\ _exhausted') =>
            /\ GotPage
            /\ result'.exc = "none"
            /\ result'.ret = <<_listing'[1].children[1]>>]_vars
    /\ [][(_exhausted /\ ~PageConsumed /\ ~BudgetSpent) =>
            /\ result'.exc = "none"
            /\ result'.ret = <<_listing[1].children[_list_index + 1]>>
            /\ _listing' = _listing]_vars

\* the last child of the page that set _exhausted has been returned
C14_Witness ==
    /\ _exhausted
    /\ result.exc = "none"
    /\ _list_index = 2
    /\ Len(_listing[1].children) = 2
    /\ result.ret = <<_listing[1].children[2]>>

\* C15: a refill with a non-empty page either stores the page's after in
\* params (when it is non-empty and differs from the stored one) and leaves
\* _exhausted alone, or sets _exhausted and leaves params alone; params
\* ["after"] changes in no other way.
C15_CursorOrExhausted ==
    /\ [][(GotPage /\ sumSizes' > sumSizes) =>
            LET e == fetchLog'[Len(fetchLog')]
            IN  IF Truthy(e.after) /\ e.after # params.after
                THEN /\ params' = [params EXCEPT !.after = e.after]
                     /\ _exhausted' = _exhausted
                ELSE /\ _exhausted'
                     /\ params' = params]_vars
    /\ [][params' # params =>
            /\ GotPage
            /\ params'.after = fetchLog'[Len(fetchLog')].after
            /\ params'.limit = params.limit]_vars

\* both outcomes have happened: the cursor moved, then a page set _exhausted
C15_Witness ==
    /\ afterChanges >= 1
    /\ _exhausted
    /\ Len(fetchLog) >= 2
    /\ params.after = fetchLog[1].after
    /\ params.after # fetchLog[1].sent

\* C18: a refill with an empty page makes that page the current one with
\* index 0 and leaves _exhausted, params and yielded as they were, also when
\* the page carries a new cursor.
C18_EmptyPageFrame ==
    [][(GotPage /\ sumSizes' = sumSizes) =>
        /\ _listing' = <<Listing(<<>>, fetchLog'[Len(fetchLog')].after)>>
        /\ _list_index' = 0
        /\ _exhausted' = _exhausted
        /\ params' = params
        /\ yielded' = yielded]_vars

\* an empty page carrying a new cursor replaced a consumed page
C18_Witness ==
    /\ Len(fetchLog) >= 2
    /\ _listing # <<>>
    /\ Len(_listing[1].children) = 0
    /\ _list_index = 0
    /\ yielded > 0
    /\ Truthy(LastFetch.after)
    /\ LastFetch.after # params.after
    /\ ~_exhausted

\* C16: the items returned so far are a prefix of the concatenation of the
\* pages returned, in fetch order, and yielded counts them: a pull that
\* returns adds exactly one item and 1 to yielded, a pull that raises adds
\* nothing.
C16_OutputIsPrefix ==
    /\ (out = <<>> /\ yielded = 0)
    /\ [][/\ Len(out') <= Len(served')
          /\ out' = SubSeq(served', 1, Len(out'))
          /\ yielded' = Len(out')
          /\ IF result'.exc = "none"
             THEN yielded' = yielded + 1 /\ Len(out') = Len(out) + 1
             ELSE yielded' = yielded /\ out' = out]_vars

\* items of two pages were returned, then a pull raised
C16_Witness ==
    /\ Len(fetchLog) >= 2
    /\ Len(out) >= 3
    /\ out = served
    /\ yielded = Len(out)
    /\ result.exc = "StopIteration"

\* with limit None, the current page is non-empty and carried a cursor that
\* is empty or equal to the one requested
EchoSeen ==
    /\ limit = NoneInt
    /\ Len(fetchLog) > 0
    /\ _listing # <<>>
    /\ Len(_listing[1].children) > 0
    /\ (~Truthy(LastFetch.after) \/ LastFetch.after = LastFetch.sent)

\* C17: with limit None, once a non-empty page carries an empty or echoed
\* cursor, no reddit.get() is called any more, every pull either returns
\* the next child of that page or raises StopIteration, and under repeated
\* pulling StopIteration is eventually raised.
C17_EchoTerminates ==
    /\ [][EchoSeen =>
            /\ fetches' = fetches
            /\ \/ result'.exc = "StopIteration"
               \/ /\ result'.exc = "none"
                  /\ _list_index' = _list_index + 1
                  /\ _list_index' <= Len(_listing[1].children)
                  /\ _listing' = _listing]_vars
    /\ (EchoSeen ~> (result.exc = "StopIteration"))

\* the server echoed the requested cursor; its page was consumed and the
\* next pull raised StopIteration
C17_Witness ==
    /\ EchoSeen
    /\ Truthy(LastFetch.after)
    /\ LastFetch.after = LastFetch.sent
    /\ _list_index = Len(_listing[1].children)
    /\ fetches < MaxFetches
    /\ result.exc = "StopIteration"

\* some item has been returned twice
Duplicated == \E i, j \in 1 .. Len(out) : i < j /\ out[i] = out[j]
\* more items than the limit have been returned
OverLimit == limit # NoneInt /\ (Len(out) > limit \/ yielded > limit)

\* C19: with serialised __next__ calls no more than limit items are
\* returned and no item is returned twice; with calls interleaved statement
\* by statement both can happen (the witness).
C19_SerialisedIsSafe == serial => (~OverLimit /\ ~Duplicated)

\* two interleaved consumers got the same item and exceeded the limit
C19_Witness ==
    /\ ~serial
    /\ limit # NoneInt
    /\ Len(out) > limit
    /\ Duplicated
====
